---- MODULE Spec2Model ----
(***************************************************************************)
(* Privacy Shield of aura_verdi: the PII detector, the pseudonymizer, the  *)
(* un-redactor and the three document routes (detect-pii,                  *)
(* confirm-redaction, analyze) that sequence them.                         *)
(*                                                                         *)
(* A JavaScript string is a sequence of one-character strings.  The block  *)
(* character U+2588 of the partial masks is written "#".  Character        *)
(* offsets are 0-based with an exclusive end, as in the source.            *)
(***************************************************************************)
EXTENDS Integers, Sequences, FiniteSets, TLC

VARIABLES
    phase,      \* position of the pure-function harness
    inText,     \* text handed to detectPII / unRedact
    inRaw,      \* the regex matches of inText, in scan order
    findings,   \* result of detectPII (with the flags chosen in review)
    redaction,  \* result of applyRedactions
    restored,   \* result of unRedact
    inMap,      \* a redactionMap handed to unRedact, in insertion order
    docs,       \* the rows of the documents table
    areq,       \* the analyze requests being served
    creq,       \* the confirm-redaction requests being served
    response,   \* the HTTP response sent last
    rateLimits, \* the Map of the rate limiter
    now,        \* Date.now()
    counted     \* what the open window of the limiter has counted (for the
                \* analysis only)

shieldVars == <<phase, inText, inRaw, findings, redaction, restored, inMap>>
limitVars == <<rateLimits, now, counted>>
gateVars == <<docs, areq, creq, response, rateLimits, now, counted>>
vars == <<phase, inText, inRaw, findings, redaction, restored, inMap,
          docs, areq, creq, response, rateLimits, now, counted>>

\* the harnesses of the pure functions serve no request
NoRequests ==
    /\ docs = <<>> /\ areq = <<>> /\ creq = <<>> /\ response = <<>>
    /\ rateLimits = <<>> /\ now = 0 /\ counted = {}

-----------------------------------------------------------------------------
(* Bounds of the model *)

MaxTextLen == 7
MaxMatches == 3
MaxMaskLen == 2
MaxEntries == 2
MaxOutputLen == 3
NumDocs == 1
NumAnalyze == 2
NumConfirm == 1
NumLimitedDocs == 2
MaxAnalyzeRequests == 2
WindowTicks == 0
MaxNow == 1

-----------------------------------------------------------------------------
(* Strings *)

Min(a, b) == IF a < b THEN a ELSE b
Max(a, b) == IF a > b THEN a ELSE b

\* String.prototype.slice(from, to): negative indices count from the end,
\* everything is clamped to [0, length].
SliceIndex(s, k) == IF k < 0 THEN Max(Len(s) + k, 0) ELSE Min(k, Len(s))
Slice(s, from, to) == SubSeq(s, SliceIndex(s, from) + 1, SliceIndex(s, to))
SliceFrom(s, from) == Slice(s, from, Len(s))

\* a line break
LineBreak == "\n"
Whitespace == {" ", LineBreak}
Digits == {"0", "1", "2", "3", "4", "5", "6", "7", "8", "9"}

RECURSIVE Strip(_, _)
\* s.replace(/X/g, '') for a character class X
Strip(s, class) ==
    IF s = <<>> THEN <<>>
    ELSE IF Head(s) \in class THEN Strip(Tail(s), class)
         ELSE <<Head(s)>> \o Strip(Tail(s), class)

StripAllBut(s, class) == Strip(s, {s[i] : i \in 1..Len(s)} \ class)

BoundedSeq(S, n) == UNION {[1..k -> S] : k \in 1..n}


-----------------------------------------------------------------------------
(* Pattern registry *)

\* Object.entries(PII_PATTERNS): the categories in declaration order
PIITypes ==
    <<"fodselsnummer", "bankAccount", "iban", "phone", "email", "address",
      "orgNumber">>

TypeIndex(t) == CHOOSE i \in 1..Len(PIITypes) : PIITypes[i] = t

PII_PATTERNS ==
    [fodselsnummer |->
        [label |-> <<"P", "E", "R", "S", "O", "N", "A", "L", " ", "I", "D">>,
         maskType |-> "full"],
     bankAccount |->
        [label |-> <<"A", "C", "C", "O", "U", "N", "T">>, maskType |-> "partial"],
     iban |->
        [label |-> <<"I", "B", "A", "N">>, maskType |-> "partial"],
     phone |->
        [label |-> <<"P", "H", "O", "N", "E">>, maskType |-> "full"],
     email |->
        [label |-> <<"E", "M", "A", "I", "L">>, maskType |-> "full"],
     address |->
        [label |-> <<"A", "D", "D", "R", "E", "S", "S">>, maskType |-> "full"],
     orgNumber |->
        [label |-> <<"O", "R", "G", " ", "N", "U", "M", "B", "E", "R">>,
         maskType |-> "full"]]

Labels == {PII_PATTERNS[PIITypes[i]].label : i \in 1..Len(PIITypes)}

UpperCase ==
    <<"A", "B", "C", "D", "E", "F", "G", "H", "I", "J", "K", "L", "M",
      "N", "O", "P", "Q", "R", "S", "T", "U", "V", "W", "X", "Y", "Z">>

\* String.fromCharCode(65 + n)
Letter(n) == UpperCase[n + 1]

-----------------------------------------------------------------------------
(* Detector *)

\* A raw match is one result of regex.exec: [type, start, end].
Original(text, m) == SubSeq(text, m.start + 1, m.end)

\* original.replace(/\s/g, '')
Normalize(original) == Strip(original, Whitespace)

\* the mask minted for a value not seen before in this call
MintMask(type, normalizedOriginal, letter) ==
    LET config == PII_PATTERNS[type] IN
    IF config.maskType = "partial" /\ type = "bankAccount"
    THEN <<"#", "#", "#", "#", ".", "#", "#", ".">>
             \o SliceFrom(normalizedOriginal, -5)
    ELSE IF config.maskType = "partial" /\ type = "iban"
    THEN <<"[", "I", "B", "A", "N", " ", "#", "#", "#", "#">>
             \o SliceFrom(StripAllBut(normalizedOriginal, Digits), -4)
             \o <<"]">>
    ELSE <<"[">> \o config.label \o <<" ", letter>> \o <<"]">>

\* state of one detectPII call before the first match; minted records, for
\* the analysis only, the values for which the else branch ran
DetectStart ==
    [detections |-> <<>>,
     labelCounters |-> [l \in Labels |-> 0],
     seenValues |-> <<>>,
     minted |-> <<>>]

\* DetectStep without the seenValues lookup: every match mints a mask
DetectStepAlwaysMint(text, m, st) ==
    LET original == Original(text, m)
        normalizedOriginal == Normalize(original)
        labelBase == PII_PATTERNS[m.type].label
        mask == MintMask(m.type, normalizedOriginal,
                         Letter(st.labelCounters[labelBase]))
    IN  [detections |->
             Append(st.detections,
                    [type |-> m.type, start |-> m.start, end |-> m.end,
                     original |-> original, suggestedMask |-> mask,
                     confirmed |-> TRUE]),
         labelCounters |-> [st.labelCounters EXCEPT ![labelBase] = @ + 1],
         seenValues |-> st.seenValues,
         minted |-> Append(st.minted, normalizedOriginal)]

\* one iteration of the while loop, for the match m
DetectStep(text, m, st) ==
    LET original == Original(text, m)
        normalizedOriginal == Normalize(original)
        labelBase == PII_PATTERNS[m.type].label
        isSeen == normalizedOriginal \in DOMAIN st.seenValues
        mask == IF isSeen THEN st.seenValues[normalizedOriginal]
                ELSE MintMask(m.type, normalizedOriginal,
                              Letter(st.labelCounters[labelBase]))
        detection == [type |-> m.type, start |-> m.start, end |-> m.end,
                      original |-> original, suggestedMask |-> mask,
                      confirmed |-> TRUE]
    IN  [detections |-> Append(st.detections, detection),
         labelCounters |->
             IF isSeen THEN st.labelCounters
             ELSE [st.labelCounters EXCEPT ![labelBase] = @ + 1],
         seenValues |->
             IF isSeen THEN st.seenValues
             ELSE [k \in DOMAIN st.seenValues \cup {normalizedOriginal} |->
                      IF k = normalizedOriginal THEN mask ELSE st.seenValues[k]],
         minted |->
             IF isSeen THEN st.minted
             ELSE Append(st.minted, normalizedOriginal)]

RECURSIVE DetectLoop(_, _, _)
\* the two nested loops over the categories and their matches
DetectLoop(text, raw, st) ==
    IF raw = <<>> THEN st
    ELSE DetectLoop(text, Tail(raw), DetectStep(text, Head(raw), st))

RECURSIVE InsertByStart(_, _)
InsertByStart(sorted, d) ==
    IF sorted = <<>> THEN <<d>>
    ELSE IF d.start < Head(sorted).start THEN <<d>> \o sorted
         ELSE <<Head(sorted)>> \o InsertByStart(Tail(sorted), d)

RECURSIVE SortByStart(_)
\* detections.sort((a, b) => a.start - b.start), a stable sort
SortByStart(detections) ==
    IF detections = <<>> THEN <<>>
    ELSE InsertByStart(SortByStart(SubSeq(detections, 1, Len(detections) - 1)),
                       detections[Len(detections)])

\* FilterStep without the overlap test
FilterStepKeepAll(filtered, detection) == Append(filtered, detection)

\* FilterStep with >= for >: on equal length the later match wins
FilterStepTieLater(filtered, detection) ==
    IF filtered # <<>> /\ detection.start < filtered[Len(filtered)].end
    THEN IF Len(detection.original) >= Len(filtered[Len(filtered)].original)
         THEN [filtered EXCEPT ![Len(filtered)] = detection]
         ELSE filtered
    ELSE Append(filtered, detection)

\* one iteration of the overlap loop
FilterStep(filtered, detection) ==
    IF filtered # <<>> /\ detection.start < filtered[Len(filtered)].end
    THEN IF Len(detection.original) > Len(filtered[Len(filtered)].original)
         THEN [filtered EXCEPT ![Len(filtered)] = detection]
         ELSE filtered
    ELSE Append(filtered, detection)

RECURSIVE FilterLoop(_, _)
FilterLoop(detections, filtered) ==
    IF detections = <<>> THEN filtered
    ELSE FilterLoop(Tail(detections), FilterStep(filtered, Head(detections)))

\* detectPII on a text whose regex matches are raw
detectPII(text, raw) ==
    FilterLoop(SortByStart(DetectLoop(text, raw, DetectStart).detections), <<>>)

-----------------------------------------------------------------------------
(* Pseudonymizer *)

\* detections.filter((d) => d.confirmed)
FilterConfirmed(detections) == SelectSeq(detections, LAMBDA d : d.confirmed)

RECURSIVE InsertByStartDesc(_, _)
InsertByStartDesc(sorted, d) ==
    IF sorted = <<>> THEN <<d>>
    ELSE IF d.start > Head(sorted).start THEN <<d>> \o sorted
         ELSE <<Head(sorted)>> \o InsertByStartDesc(Tail(sorted), d)

\* the confirmed findings in the order of the detector, front to back
SortByStartDescNoSort(detections) == detections

RECURSIVE SortByStartDesc(_)
\* .sort((a, b) => b.start - a.start), a stable sort
SortByStartDesc(detections) ==
    IF detections = <<>> THEN <<>>
    ELSE InsertByStartDesc(
             SortByStartDesc(SubSeq(detections, 1, Len(detections) - 1)),
             detections[Len(detections)])

\* A Record<string, string> is the sequence of its entries [mask, original]
\* in insertion order; map[mask] = original keeps the place of a key that is
\* already there.
MapKeys(map) == [i \in 1..Len(map) |-> map[i].mask]
MapHas(map, mask) == \E i \in 1..Len(map) : map[i].mask = mask
MapGet(map, mask) == map[CHOOSE i \in 1..Len(map) : map[i].mask = mask].original
MapSet(map, mask, original) ==
    IF MapHas(map, mask)
    THEN [i \in 1..Len(map) |->
             IF map[i].mask = mask THEN [mask |-> mask, original |-> original]
             ELSE map[i]]
    ELSE Append(map, [mask |-> mask, original |-> original])

\* one iteration of the for loop of applyRedactions
RedactStep(acc, detection) ==
    [redactedText |->
         Slice(acc.redactedText, 0, detection.start)
             \o detection.suggestedMask
             \o SliceFrom(acc.redactedText, detection.end),
     redactionMap |->
         MapSet(acc.redactionMap, detection.suggestedMask, detection.original)]

RECURSIVE RedactLoop(_, _)
RedactLoop(confirmedDetections, acc) ==
    IF confirmedDetections = <<>> THEN acc
    ELSE RedactLoop(Tail(confirmedDetections),
                    RedactStep(acc, Head(confirmedDetections)))

applyRedactions(originalText, detections) ==
    RedactLoop(SortByStartDesc(FilterConfirmed(detections)),
               [redactedText |-> originalText, redactionMap |-> <<>>])

-----------------------------------------------------------------------------
(* Un-redactor *)

RECURSIVE InsertByLengthDesc(_, _)
InsertByLengthDesc(sorted, mask) ==
    IF sorted = <<>> THEN <<mask>>
    ELSE IF Len(mask) > Len(Head(sorted)) THEN <<mask>> \o sorted
         ELSE <<Head(sorted)>> \o InsertByLengthDesc(Tail(sorted), mask)

\* the keys in insertion order: the sort left out
SortByLengthDescNoSort(masks) == masks

RECURSIVE SortByLengthDesc(_)
\* Object.keys(redactionMap).sort((a, b) => b.length - a.length), stable
SortByLengthDesc(masks) ==
    IF masks = <<>> THEN <<>>
    ELSE InsertByLengthDesc(SortByLengthDesc(SubSeq(masks, 1, Len(masks) - 1)),
                            masks[Len(masks)])

StartsWith(s, prefix) ==
    Len(prefix) <= Len(s) /\ SubSeq(s, 1, Len(prefix)) = prefix

RECURSIVE Split(_, _, _)
\* text.split(sep) for a sep that is not empty: the pieces between the
\* occurrences of sep, found left to right; piece is the piece being read
Split(text, sep, piece) ==
    IF text = <<>> THEN <<piece>>
    ELSE IF StartsWith(text, sep)
         THEN <<piece>> \o Split(SubSeq(text, Len(sep) + 1, Len(text)), sep, <<>>)
         ELSE Split(Tail(text), sep, Append(piece, Head(text)))

RECURSIVE Join(_, _)
\* pieces.join(glue)
Join(pieces, glue) ==
    IF pieces = <<>> THEN <<>>
    ELSE IF Len(pieces) = 1 THEN pieces[1]
         ELSE pieces[1] \o glue \o Join(Tail(pieces), glue)

\* result.split(mask).join(original); an empty separator splits a string
\* into its characters
ReplaceAll(text, mask, original) ==
    IF mask = <<>>
    THEN Join([i \in 1..Len(text) |-> <<text[i]>>], original)
    ELSE Join(Split(text, mask, <<>>), original)

RECURSIVE UnRedactLoop(_, _, _)
UnRedactLoop(result, masks, redactionMap) ==
    IF masks = <<>> THEN result
    ELSE UnRedactLoop(ReplaceAll(result, Head(masks),
                                 MapGet(redactionMap, Head(masks))),
                      Tail(masks), redactionMap)

unRedact(text, redactionMap) ==
    UnRedactLoop(text, SortByLengthDesc(MapKeys(redactionMap)), redactionMap)

-----------------------------------------------------------------------------
(* Harness of the pure functions: a text is scanned, detected, reviewed and
   redacted, and the masked text is un-redacted with the map of that call. *)

\* the characters of the harness texts
Alphabet == {"1", " "}

\* the categories whose regex can match a text of the digit 1 and whitespace
\* (a phone number starts with a digit 2-9, an IBAN with NO, an e-mail
\* address has an @, a postal address a street keyword)
HarnessTypes == {"fodselsnummer", "bankAccount", "orgNumber"}

NoRedaction == [redactedText |-> <<>>, redactionMap |-> <<>>]

InitShield ==
    /\ phase = "scan"
    /\ inText \in BoundedSeq(Alphabet, MaxTextLen)
    /\ inRaw = <<>>
    /\ findings = <<>>
    /\ redaction = NoRedaction
    /\ restored = <<>>
    /\ inMap = <<>>
    /\ NoRequests

\* regex.exec returns the next match [start, end) of category type: the
\* categories are scanned in order, the matches of one category are found
\* left to right and do not overlap, and a match of these categories starts
\* and ends with a digit at a word boundary (\b)
RegexExec(type, start, end) ==
    /\ phase = "scan"
    /\ Len(inRaw) < MaxMatches
    /\ 0 <= start /\ start < end /\ end <= Len(inText)
    /\ inText[start + 1] \notin Whitespace
    /\ inText[end] \notin Whitespace
    /\ start > 0 => inText[start] \in Whitespace
    /\ end < Len(inText) => inText[end + 1] \in Whitespace
    /\ inRaw # <<>> =>
          LET last == inRaw[Len(inRaw)] IN
          \/ TypeIndex(last.type) < TypeIndex(type)
          \/ last.type = type /\ last.end <= start
    /\ inRaw' = Append(inRaw, [type |-> type, start |-> start, end |-> end])
    /\ UNCHANGED <<phase, inText, findings, redaction, restored, inMap>>
    /\ UNCHANGED gateVars

\* regex.exec has returned null for every remaining category
RunDetect ==
    /\ phase = "scan"
    /\ phase' = "detected"
    /\ findings' = detectPII(inText, inRaw)
    /\ UNCHANGED <<inText, inRaw, redaction, restored, inMap>>
    /\ UNCHANGED gateVars

\* the user leaves the findings of the set confirmed checked, unchecks the
\* others, and the redactor runs
Redact(confirmed) ==
    /\ phase = "detected"
    /\ phase' = "redacted"
    /\ findings' = [i \in 1..Len(findings) |->
                       [findings[i] EXCEPT !.confirmed = (i \in confirmed)]]
    /\ redaction' = applyRedactions(inText, findings')
    /\ UNCHANGED <<inText, inRaw, restored, inMap>>
    /\ UNCHANGED gateVars

Restore ==
    /\ phase = "redacted"
    /\ phase' = "restored"
    /\ restored' = unRedact(redaction.redactedText, redaction.redactionMap)
    /\ UNCHANGED <<inText, inRaw, findings, redaction, inMap>>
    /\ UNCHANGED gateVars

NextShield ==
    \/ \E type \in HarnessTypes, start \in 0..MaxTextLen, end \in 0..MaxTextLen :
          RegexExec(type, start, end)
    \/ RunDetect
    \/ \E confirmed \in SUBSET (1..Len(findings)) : Redact(confirmed)
    \/ Restore

SpecShield == InitShield /\ [][NextShield]_vars

\* the detector alone
NextDetect ==
    \/ \E type \in HarnessTypes, start \in 0..MaxTextLen, end \in 0..MaxTextLen :
          RegexExec(type, start, end)
    \/ RunDetect

SpecDetect == InitShield /\ [][NextDetect]_vars

-----------------------------------------------------------------------------
(* Claims about the detector (SpecDetect) *)

\* the detectPII call of the harness: its loop state after the last match,
\* and its detections after the sort, before the overlap loop
DetectTrace == DetectLoop(inText, inRaw, DetectStart)
SortedDetections == SortByStart(DetectTrace.detections)

Overlap(a, b) == a.start < b.end /\ b.start < a.end
Returned(d) == \E k \in 1..Len(findings) : findings[k] = d

\* C7: within one detectPII call all findings whose matched text has the
\* same whitespace-stripped value carry the same mask, and a mask is minted
\* only for a normalized value not seen before in the call (no value is
\* minted twice).
MaskConsistency ==
    phase = "detected" =>
        /\ \A i, j \in 1..Len(findings) :
              Strip(findings[i].original, {" "}) = Strip(findings[j].original, {" "})
                  => findings[i].suggestedMask = findings[j].suggestedMask
        /\ \A i, j \in 1..Len(DetectTrace.minted) :
              i # j => DetectTrace.minted[i] # DetectTrace.minted[j]

\* two findings of one value written with different whitespace
MaskConsistencyWitness ==
    /\ phase = "detected"
    /\ \E i, j \in 1..Len(findings) :
          /\ findings[i].original # findings[j].original
          /\ Strip(findings[i].original, {" "}) = Strip(findings[j].original, {" "})
          /\ findings[i].suggestedMask = findings[j].suggestedMask
    /\ Len(DetectTrace.minted) < Len(inRaw)

\* C8: the list returned by detectPII is sorted ascending by start and no
\* finding starts before the end of the finding before it.
SortedNoOverlap ==
    phase = "detected" =>
        \A i \in 1..(Len(findings) - 1) :
            /\ findings[i].start <= findings[i + 1].start
            /\ findings[i + 1].start >= findings[i].end

\* matches found out of position order, some overlapping, two findings kept
SortedNoOverlapWitness ==
    /\ phase = "detected"
    /\ Len(findings) >= 2
    /\ Len(findings) < Len(inRaw)
    /\ \E i, j \in 1..Len(inRaw) : i < j /\ inRaw[i].start > inRaw[j].start

\* of two overlapping detections, i before j in the sorted list: the shorter
\* one, on equal length the later one
Loser(i, j) ==
    IF Len(SortedDetections[i].original) < Len(SortedDetections[j].original)
    THEN SortedDetections[i] ELSE SortedDetections[j]
Winner(i, j) ==
    IF Len(SortedDetections[i].original) < Len(SortedDetections[j].original)
    THEN SortedDetections[j] ELSE SortedDetections[i]

OverlapsNothing(i) ==
    \A k \in 1..Len(SortedDetections) :
        k # i => ~Overlap(SortedDetections[i], SortedDetections[k])

\* C9 as claimed: whenever two raw matches overlap, the returned findings
\* never contain the shorter of the two (on equal length the later one);
\* matches that overlap nothing are all returned.
OverlapKeepsLonger ==
    phase = "detected" =>
        /\ \A i, j \in 1..Len(SortedDetections) :
              i < j /\ Overlap(SortedDetections[i], SortedDetections[j])
                  => ~Returned(Loser(i, j))
        /\ \A i \in 1..Len(SortedDetections) :
              OverlapsNothing(i) => Returned(SortedDetections[i])

\* C9 amended: of two overlapping raw matches at most one is returned, and
\* the shorter (on equal length the later) one is returned only when the
\* longer one was itself discarded in an overlap with a third match at least
\* as long as it; matches that overlap nothing are all returned.
OverlapKeepsLongerUnlessDisplaced ==
    phase = "detected" =>
        /\ \A i, j \in 1..Len(SortedDetections) :
              i < j /\ Overlap(SortedDetections[i], SortedDetections[j])
                  => /\ ~(Returned(SortedDetections[i]) /\ Returned(SortedDetections[j]))
                     /\ Returned(Loser(i, j)) =>
                           \E k \in 1..Len(SortedDetections) :
                               /\ k # i /\ k # j
                               /\ Overlap(SortedDetections[k], Winner(i, j))
                               /\ Len(SortedDetections[k].original)
                                      >= Len(Winner(i, j).original)
        /\ \A i \in 1..Len(SortedDetections) :
              OverlapsNothing(i) => Returned(SortedDetections[i])

\* two overlapping matches of different lengths of which only the longer is
\* returned, next to a match that overlaps nothing
OverlapWitness ==
    /\ phase = "detected"
    /\ \E i, j \in 1..Len(SortedDetections) :
          /\ i < j /\ Overlap(SortedDetections[i], SortedDetections[j])
          /\ Len(SortedDetections[i].original) # Len(SortedDetections[j].original)
          /\ Returned(Winner(i, j)) /\ ~Returned(Loser(i, j))
    /\ \E i \in 1..Len(SortedDetections) : OverlapsNothing(i)

-----------------------------------------------------------------------------
(* Claims about the round trip (SpecShield) *)

RECURSIVE SumOver(_, _)
\* the sum of f[j] over j in 1..n
SumOver(f, n) == IF n = 0 THEN 0 ELSE f[n] + SumOver(f, n - 1)

\* how far the text before finding i has grown in the masked text and in the
\* restored text
MaskedGrowth ==
    [j \in 1..Len(findings) |->
        IF findings[j].confirmed
        THEN Len(findings[j].suggestedMask) - Len(findings[j].original)
        ELSE 0]
RestoredGrowth ==
    [j \in 1..Len(findings) |->
        IF findings[j].confirmed
        THEN Len(MapGet(redaction.redactionMap, findings[j].suggestedMask))
                 - Len(findings[j].original)
        ELSE 0]

MaskedAt(i) ==
    LET from == findings[i].start + SumOver(MaskedGrowth, i - 1)
    IN  Slice(redaction.redactedText, from, from + Len(findings[i].original))
RestoredAt(i) ==
    LET from == findings[i].start + SumOver(RestoredGrowth, i - 1)
    IN  Slice(restored, from, from + Len(findings[i].original))

\* C6: un-redacting the redacted text with the map of the same
\* applyRedactions call restores at every confirmed finding's position
\* exactly its original substring, and every unconfirmed finding's span is
\* its original text in the masked and in the restored text.
RoundTrip ==
    phase = "restored" =>
        \A i \in 1..Len(findings) :
            IF findings[i].confirmed
            THEN RestoredAt(i) = findings[i].original
            ELSE /\ MaskedAt(i) = findings[i].original
                 /\ RestoredAt(i) = findings[i].original

-----------------------------------------------------------------------------
(* Harness of the un-redactor: a redactionMap is filled entry by entry, in
   any order, and an analysis output that may contain the masks is
   un-redacted with it. *)

\* the characters masks are made of, and a character no mask contains
MaskChars == {"#", "A"}
PlainChar == "x"

\* the original values: one that contains a mask character and one that
\* contains none
OriginalValues == {<<"A">>, <<PlainChar>>}

InitUnRedact ==
    /\ phase = "map"
    /\ inText \in BoundedSeq(MaskChars \cup {PlainChar}, MaxOutputLen)
    /\ inMap = <<>>
    /\ restored = <<>>
    /\ inRaw = <<>>
    /\ findings = <<>>
    /\ redaction = NoRedaction
    /\ NoRequests

\* redactionMap[mask] = original for a mask that is not yet a key
MapInsert(mask, original) ==
    /\ phase = "map"
    /\ Len(inMap) < MaxEntries
    /\ ~MapHas(inMap, mask)
    /\ inMap' = MapSet(inMap, mask, original)
    /\ UNCHANGED <<phase, inText, inRaw, findings, redaction, restored>>
    /\ UNCHANGED gateVars

UnRedactOutput ==
    /\ phase = "map"
    /\ phase' = "unredacted"
    /\ restored' = unRedact(inText, inMap)
    /\ UNCHANGED <<inText, inRaw, findings, redaction, inMap>>
    /\ UNCHANGED gateVars

NextUnRedact ==
    \/ \E mask \in BoundedSeq(MaskChars, MaxMaskLen), original \in OriginalValues :
          MapInsert(mask, original)
    \/ UnRedactOutput

SpecUnRedact == InitUnRedact /\ [][NextUnRedact]_vars

-----------------------------------------------------------------------------
(* Claims about the un-redactor (SpecUnRedact) *)

IsSubstring(s, t) ==
    \E from \in 1..(Len(t) - Len(s) + 1) : SubSeq(t, from, from + Len(s) - 1) = s

\* one mask of the map is a literal substring of another
HasNestedMasks(map) ==
    \E i, j \in 1..Len(map) : i # j /\ IsSubstring(map[i].mask, map[j].mask)

\* the entries of map in another order
Reorderings(map) ==
    {[i \in 1..Len(map) |-> map[p[i]]] :
        p \in {q \in [1..Len(map) -> 1..Len(map)] :
                  \A i, j \in 1..Len(map) : i # j => q[i] # q[j]}}

\* The restoration the un-redactor is meant to compute.  The text is a list
\* of pieces; a piece is either still masked text or a restored value, and a
\* restored value is never looked at again.  The masks are taken longest
\* first.
LongestEntry(entries) ==
    CHOOSE i \in 1..Len(entries) :
        /\ \A j \in 1..Len(entries) : Len(entries[j].mask) <= Len(entries[i].mask)
        /\ \A j \in 1..(i - 1) : Len(entries[j].mask) < Len(entries[i].mask)

Without(entries, i) == SubSeq(entries, 1, i - 1) \o SubSeq(entries, i + 1, Len(entries))

RECURSIVE Interleave(_, _)
\* the pieces between the occurrences of a mask, with the original value,
\* as a restored piece, in place of each occurrence
Interleave(parts, original) ==
    IF Len(parts) = 1 THEN <<[masked |-> TRUE, s |-> parts[1]]>>
    ELSE <<[masked |-> TRUE, s |-> parts[1]], [masked |-> FALSE, s |-> original]>>
             \o Interleave(Tail(parts), original)

RECURSIVE RestorePieces(_, _)
RestorePieces(pieces, entry) ==
    IF pieces = <<>> THEN <<>>
    ELSE (IF Head(pieces).masked
          THEN Interleave(Split(Head(pieces).s, entry.mask, <<>>), entry.original)
          ELSE <<Head(pieces)>>)
             \o RestorePieces(Tail(pieces), entry)

RECURSIVE RestoreAll(_, _)
RestoreAll(pieces, entries) ==
    IF entries = <<>> THEN pieces
    ELSE LET i == LongestEntry(entries)
         IN  RestoreAll(RestorePieces(pieces, entries[i]), Without(entries, i))

RECURSIVE Flatten(_)
Flatten(pieces) ==
    IF pieces = <<>> THEN <<>> ELSE Head(pieces).s \o Flatten(Tail(pieces))

Restoration(text, map) ==
    Flatten(RestoreAll(<<[masked |-> TRUE, s |-> text]>>, map))

CleanOriginals(map) ==
    \A i, j \in 1..Len(map) :
        \A k \in 1..Len(map[i].original), l \in 1..Len(map[j].mask) :
            map[i].original[k] # map[j].mask[l]

\* two different masks of one length of which one can begin inside the other
EqualLengthOverlap(map) ==
    \E i, j \in 1..Len(map) :
        /\ i # j /\ Len(map[i].mask) = Len(map[j].mask)
        /\ \E n \in 1..(Len(map[i].mask) - 1) :
              SubSeq(map[i].mask, Len(map[i].mask) - n + 1, Len(map[i].mask))
                  = SubSeq(map[j].mask, 1, n)

-----------------------------------------------------------------------------
(* The documents table and the routes detect-pii, confirm-redaction and
   analyze.  Every await on the database or on a collaborator is a point
   where another request can run. *)

DocIds == 1..NumDocs

\* a nullable column: None is null, Some(x) the value x
None == <<>>
Some(x) == <<x>>
\* a ?? b
Coalesce(a, b) == IF a # None THEN a ELSE b
\* !text for a nullable string: null and '' are falsy
Falsy(t) == t = None \/ t[1] = <<>>

\* a row after upload: the columns of the Privacy Shield at their defaults
UploadedDoc(file) ==
    [file_path |-> file,
     status |-> "uploaded",
     extracted_text |-> None,
     pii_detections |-> <<>>,
     redaction_status |-> "pending",
     redacted_text |-> None,
     redaction_map |-> <<>>,
     ai_summary |-> None,
     ai_summary_redacted |-> None]

\* the uploaded files
Files == {"scan.pdf", "letter.txt", "note.txt"}

\* what the transcription can return for an uploaded file, with the matches
\* the regexes find in it.  The PDF is transcribed by the collaborator, which
\* returns the personal id of the scan or misses it; a text file is read as
\* it is: the letter holds a personal id broken over two lines (\s matches a
\* line break), the note holds no PII
Corpus ==
    {[file |-> "scan.pdf", text |-> <<"1", "1", " ", "x">>,
      raw |-> <<[type |-> "fodselsnummer", start |-> 0, end |-> 2]>>],
     [file |-> "scan.pdf", text |-> <<"x">>, raw |-> <<>>],
     [file |-> "letter.txt", text |-> <<"1", LineBreak, "1">>,
      raw |-> <<[type |-> "fodselsnummer", start |-> 0, end |-> 3]>>],
     [file |-> "note.txt", text |-> <<"x">>, raw |-> <<>>]}

\* a request slot that serves no request
IdleAnalyze == [pc |-> "idle", doc |-> 0, text |-> <<>>, map |-> <<>>]

IdleConfirm ==
    [pc |-> "idle", doc |-> 0, extracted_text |-> <<>>, detections |-> <<>>,
     skip |-> FALSE]

\* the keys of the rate limiter: one user
RateKeys == {"analyze:user"}

NextResponse(route, req, doc, status) ==
    [route |-> route, req |-> req, doc |-> doc, status |-> status]

Init ==
    /\ docs \in [DocIds -> {UploadedDoc(file) : file \in Files}]
    /\ areq = [r \in 1..NumAnalyze |-> IdleAnalyze]
    /\ creq = [q \in 1..NumConfirm |-> IdleConfirm]
    /\ response = NextResponse("none", 0, 0, "none")
    /\ rateLimits = [key \in RateKeys |-> None]
    /\ now = 0
    /\ counted = {}
    /\ phase = "off"
    /\ inText = <<>>
    /\ inRaw = <<>>
    /\ findings = <<>>
    /\ redaction = NoRedaction
    /\ restored = <<>>
    /\ inMap = <<>>

(* POST /api/documents/detect-pii *)

\* the transcription of the file returned c.text; the findings are stored
DetectPII(d, c) ==
    LET detections == detectPII(c.text, c.raw) IN
    /\ c.file = docs[d].file_path
    /\ docs' = [docs EXCEPT ![d] =
                   [@ EXCEPT !.extracted_text = Some(c.text),
                             !.pii_detections = detections,
                             !.redaction_status =
                                 IF Len(detections) > 0 THEN "auto_detected"
                                 ELSE "pending",
                             !.status = "pii_detected"]]
    /\ response' = NextResponse("detect-pii", 0, d, "200")
    /\ UNCHANGED <<areq, creq>>
    /\ UNCHANGED shieldVars
    /\ UNCHANGED limitVars

\* the download or the transcription fails: the handler answers 500 and
\* writes nothing
DetectPIIFailed(d) ==
    /\ response' = NextResponse("detect-pii", 0, d, "500")
    /\ UNCHANGED <<docs, areq, creq>>
    /\ UNCHANGED shieldVars
    /\ UNCHANGED limitVars

(* POST /api/documents/confirm-redaction *)

\* the request body holds the findings shown for review, checked for the
\* indices in confirmed; the row is fetched
ConfirmFetch(q, d, confirmed, skip) ==
    /\ creq[q].pc = "idle"
    /\ IF Falsy(docs[d].extracted_text)
       THEN /\ response' = NextResponse("confirm-redaction", q, d, "400 no text")
            /\ UNCHANGED creq
       ELSE /\ creq' = [creq EXCEPT ![q] =
                           [pc |-> "fetched", doc |-> d,
                            extracted_text |-> docs[d].extracted_text[1],
                            detections |->
                                [i \in 1..Len(docs[d].pii_detections) |->
                                    [docs[d].pii_detections[i]
                                        EXCEPT !.confirmed = (i \in confirmed)]],
                            skip |-> skip]]
            /\ UNCHANGED response
    /\ UNCHANGED <<docs, areq>>
    /\ UNCHANGED shieldVars
    /\ UNCHANGED limitVars

\* the update of the row, for skip and for confirm
ConfirmUpdate(doc, req) ==
    IF req.skip
    THEN [doc EXCEPT !.pii_detections = req.detections,
                     !.redaction_status = "skipped",
                     !.status = "redaction_confirmed"]
    ELSE LET result == applyRedactions(req.extracted_text, req.detections)
         IN  [doc EXCEPT !.redacted_text = Some(result.redactedText),
                         !.redaction_map = result.redactionMap,
                         !.pii_detections = req.detections,
                         !.redaction_status = "user_confirmed",
                         !.status = "redaction_confirmed"]

ConfirmWrite(q) ==
    /\ creq[q].pc = "fetched"
    /\ docs' = [docs EXCEPT ![creq[q].doc] = ConfirmUpdate(@, creq[q])]
    /\ creq' = [creq EXCEPT ![q] = IdleConfirm]
    /\ response' = NextResponse("confirm-redaction", q, creq[q].doc, "200")
    /\ UNCHANGED areq
    /\ UNCHANGED shieldVars
    /\ UNCHANGED limitVars

(* POST /api/documents/analyze *)

\* extracted_text ?? redacted_text: the raw text is preferred
TextForClaudeRaw(doc) == Coalesce(doc.extracted_text, doc.redacted_text)

\* redacted_text ?? extracted_text
TextForClaude(doc) == Coalesce(doc.redacted_text, doc.extracted_text)

\* the checks of the route without the check of the redaction status
AnalyzeVerdictNoShield(doc) ==
    IF doc.status = "analyzing" THEN "409 in progress"
    ELSE IF doc.status = "analyzed" THEN "409 already analyzed"
    ELSE IF Falsy(TextForClaude(doc)) THEN "400 no text"
    ELSE "pass"

\* the checks of the route on the fetched row: the response that rejects the
\* request, or "pass"
AnalyzeVerdict(doc) ==
    IF doc.redaction_status \notin {"user_confirmed", "skipped"}
    THEN "400 privacy shield"
    ELSE IF doc.status = "analyzing" THEN "409 in progress"
    ELSE IF doc.status = "analyzed" THEN "409 already analyzed"
    ELSE IF Falsy(TextForClaude(doc)) THEN "400 no text"
    ELSE "pass"

\* the row is fetched and checked
AnalyzeChecks(r, d) ==
    /\ areq[r].pc = "idle"
    /\ IF AnalyzeVerdict(docs[d]) = "pass"
       THEN /\ areq' = [areq EXCEPT ![r] =
                           [pc |-> "fetched", doc |-> d,
                            text |-> TextForClaude(docs[d])[1],
                            map |-> docs[d].redaction_map]]
            /\ UNCHANGED response
       ELSE /\ response' = NextResponse("analyze", r, d, AnalyzeVerdict(docs[d]))
            /\ UNCHANGED areq
    /\ UNCHANGED <<docs, creq>>
    /\ UNCHANGED shieldVars

\* a request that the rate limiter admits, from the fetch of the row on
AnalyzeFetch(r, d) ==
    /\ AnalyzeChecks(r, d)
    /\ UNCHANGED limitVars

\* the status is set, and the analysis collaborator is called with the text
AnalyzeSetAnalyzing(r) ==
    /\ areq[r].pc = "fetched"
    /\ docs' = [docs EXCEPT ![areq[r].doc].status = "analyzing"]
    /\ areq' = [areq EXCEPT ![r].pc = "calling"]
    /\ UNCHANGED <<creq, response>>
    /\ UNCHANGED shieldVars
    /\ UNCHANGED limitVars

\* AnalyzeFailed without the write of status error
AnalyzeFailedNoWrite(r, status) ==
    /\ areq[r].pc = "calling"
    /\ areq' = [areq EXCEPT ![r] = IdleAnalyze]
    /\ response' = NextResponse("analyze", r, areq[r].doc, status)
    /\ UNCHANGED <<docs, creq>>
    /\ UNCHANGED shieldVars
    /\ UNCHANGED limitVars

\* the collaborator throws, or its output is not JSON
AnalyzeFailed(r, status) ==
    /\ areq[r].pc = "calling"
    /\ docs' = [docs EXCEPT ![areq[r].doc].status = "error"]
    /\ areq' = [areq EXCEPT ![r] = IdleAnalyze]
    /\ response' = NextResponse("analyze", r, areq[r].doc, status)
    /\ UNCHANGED creq
    /\ UNCHANGED shieldVars
    /\ UNCHANGED limitVars

\* the collaborator returns rawText, a JSON document that quotes the text it
\* was given: as JSON requires, a line break is written as the escape \n
AnalysisOutput(text) == ReplaceAll(text, <<LineBreak>>, <<"\\", "n">>)

\* JSON.parse accepts the text: a JSON string holds no raw line break
ParsesAsJSON(text) == \A i \in 1..Len(text) : text[i] # LineBreak

\* the user-facing summary: analysisForUser is the parsed un-redacted output,
\* or the masked analysis when that does not parse
SummaryForUser(rawText, redactionMap) ==
    IF ParsesAsJSON(unRedact(rawText, redactionMap))
    THEN unRedact(rawText, redactionMap)
    ELSE rawText

\* the analysis is un-redacted and stored
AnalyzeStore(r) ==
    LET rawText == AnalysisOutput(areq[r].text) IN
    /\ areq[r].pc = "calling"
    /\ docs' = [docs EXCEPT ![areq[r].doc] =
                   [@ EXCEPT !.ai_summary =
                                 Some(SummaryForUser(rawText, areq[r].map)),
                             !.ai_summary_redacted = Some(rawText),
                             !.status = "analyzed"]]
    /\ areq' = [areq EXCEPT ![r] = IdleAnalyze]
    /\ response' = NextResponse("analyze", r, areq[r].doc, "200")
    /\ UNCHANGED creq
    /\ UNCHANGED shieldVars
    /\ UNCHANGED limitVars

Next ==
    \/ \E d \in DocIds, c \in Corpus : DetectPII(d, c)
    \/ \E d \in DocIds : DetectPIIFailed(d)
    \/ \E q \in 1..NumConfirm, d \in DocIds, skip \in BOOLEAN :
          \E confirmed \in SUBSET (1..Len(docs[d].pii_detections)) :
              ConfirmFetch(q, d, confirmed, skip)
    \/ \E q \in 1..NumConfirm : ConfirmWrite(q)
    \/ \E r \in 1..NumAnalyze, d \in DocIds : AnalyzeFetch(r, d)
    \/ \E r \in 1..NumAnalyze : AnalyzeSetAnalyzing(r)
    \/ \E r \in 1..NumAnalyze :
          \E status \in {"500 unexpected", "500 analysis failed"} :
              AnalyzeFailed(r, status)
    \/ \E r \in 1..NumAnalyze : AnalyzeStore(r)

\* The requests that the rate limiter admits: a request it rejects returns
\* before the row is read.  SpecLimited below adds the limiter.
Spec == Init /\ [][Next]_vars

-----------------------------------------------------------------------------
(* Claims about the gate of the analyze route *)

GateOpen == {"user_confirmed", "skipped"}

\* the step in which the analyze request of slot r passes the checks
Accepts(r) == areq[r].pc = "idle" /\ areq'[r].pc = "fetched"

\* the step in which the analyze request of slot r is rejected by the checks
Rejects(r) ==
    /\ areq[r].pc = "idle"
    /\ response' # response
    /\ response'.route = "analyze"
    /\ response'.req = r

\* the step in which the analysis of the request of slot r fails
Fails(r) ==
    /\ areq[r].pc = "calling"
    /\ areq'[r].pc = "idle"
    /\ response'.status \in {"500 unexpected", "500 analysis failed"}

\* the step in which the request of slot r calls the analysis collaborator
Calls(r) == areq[r].pc # "calling" /\ areq'[r].pc = "calling"

\* C1: an analyze request passes the checks only if the row it fetched has
\* redaction status user_confirmed or skipped; a request that fetched any
\* other redaction status is answered with the Privacy Shield rejection in a
\* step that changes no row and starts no call, and the collaborator is
\* called only by a request that passed the checks.
AnalyzeGated ==
    [][\A r \in 1..NumAnalyze :
          /\ Accepts(r) =>
                docs[areq'[r].doc].redaction_status \in GateOpen
          /\ (Rejects(r) /\ docs[response'.doc].redaction_status \notin GateOpen)
                => /\ response'.status = "400 privacy shield"
                   /\ docs' = docs
                   /\ areq' = areq
          /\ Calls(r) => areq[r].pc = "fetched"]_vars

\* a request for a document with findings still under review was rejected
AnalyzeGatedWitness ==
    /\ response.route = "analyze"
    /\ response.status = "400 privacy shield"
    /\ docs[response.doc].redaction_status = "auto_detected"
    /\ docs[response.doc].extracted_text # None
    /\ docs[response.doc].status = "pii_detected"

\* C2: a request that fetched redaction status user_confirmed holds the
\* fetched redacted_text, which is not null, and calls the collaborator with
\* exactly that text.
SendsRedactedText ==
    [][\A r \in 1..NumAnalyze :
          /\ (Accepts(r) /\
              docs[areq'[r].doc].redaction_status = "user_confirmed")
                => /\ docs[areq'[r].doc].redacted_text # None
                   /\ Some(areq'[r].text) = docs[areq'[r].doc].redacted_text
          /\ Calls(r) => areq'[r].text = areq[r].text]_vars

\* the collaborator is being called with a redacted text that differs from
\* the extracted text of a document with confirmed redaction
SendsRedactedTextWitness ==
    \E r \in 1..NumAnalyze :
        /\ areq[r].pc = "calling"
        /\ docs[areq[r].doc].redaction_status = "user_confirmed"
        /\ docs[areq[r].doc].redacted_text = Some(areq[r].text)
        /\ docs[areq[r].doc].extracted_text # Some(areq[r].text)
        /\ areq[r].map # <<>>

\* C3: of the analyze requests for one document at most one is calling the
\* analysis collaborator.
AnalyzeMutualExclusion ==
    \A r1, r2 \in 1..NumAnalyze :
        (/\ areq[r1].pc = "calling"
         /\ areq[r2].pc = "calling"
         /\ areq[r1].doc = areq[r2].doc) => r1 = r2

\* C4: an analyze request for a document with status analyzing or analyzed
\* does not pass the checks; it is answered with a conflict in a step that
\* changes no row and starts no call.
ConflictRejected ==
    [][\A r \in 1..NumAnalyze :
          /\ Accepts(r) =>
                docs[areq'[r].doc].status \notin {"analyzing", "analyzed"}
          /\ (Rejects(r) /\
              docs[response'.doc].status \in {"analyzing", "analyzed"})
                => /\ response'.status \in
                          {"409 in progress", "409 already analyzed"}
                   /\ docs' = docs
                   /\ areq' = areq]_vars

\* C5: a failure of the analysis changes only the status of the document, to
\* error; an analyze request for a document with status error passes the
\* checks without changing a row, and the call that follows changes only the
\* status, to analyzing.
FailureKeepsRedaction ==
    [][\A r \in 1..NumAnalyze :
          /\ Fails(r) => docs' = [docs EXCEPT ![areq[r].doc].status = "error"]
          /\ ~(Rejects(r) /\ docs[response'.doc].status = "error")
          /\ Accepts(r) => docs' = docs
          /\ Calls(r) =>
                docs' = [docs EXCEPT ![areq[r].doc].status = "analyzing"]]_vars

-----------------------------------------------------------------------------
(* Claims about what the routes persist *)

\* C11: once ai_summary_redacted of a document holds a masked analysis
\* output, no step changes or clears it.
AuditTrailRetained ==
    [][\A d \in DocIds :
          docs[d].ai_summary_redacted # None =>
              docs'[d].ai_summary_redacted = docs[d].ai_summary_redacted]_vars

\* C12: an analyze request that fetched redaction status skipped holds the
\* fetched extracted_text, and calls the collaborator with exactly that text.
SkipSendsExtractedText ==
    [][\A r \in 1..NumAnalyze :
          /\ (Accepts(r) /\ docs[areq'[r].doc].redaction_status = "skipped")
                => Some(areq'[r].text) = docs[areq'[r].doc].extracted_text
          /\ Calls(r) => areq'[r].text = areq[r].text]_vars

\* the step in which the request of slot r stores an analysis
Finishes(r) ==
    /\ areq[r].pc = "calling"
    /\ areq'[r].pc = "idle"
    /\ response'.status = "200"

\* C13: when the collaborator's output parses and its un-redacted version
\* does not, the request stores the masked analysis as the user-facing
\* summary, and the document is left neither in error nor in analyzed.
FallbackFlagged ==
    [][\A r \in 1..NumAnalyze :
          (/\ Finishes(r)
           /\ ~ParsesAsJSON(unRedact(AnalysisOutput(areq[r].text),
                                     areq[r].map)))
              => /\ docs'[areq[r].doc].ai_summary =
                        Some(AnalysisOutput(areq[r].text))
                 /\ docs'[areq[r].doc].status \notin {"analyzed", "error"}]_vars

\* C14: no step changes the status of a document that is analyzed, and a
\* step that changes the status of a document in error sets it to analyzing.
StatusTerminal ==
    [][\A d \in DocIds :
          /\ docs[d].status = "analyzed" => docs'[d].status = "analyzed"
          /\ docs[d].status = "error" =>
                docs'[d].status \in {"error", "analyzing"}]_vars

\* the step in which detect-pii stores a detection pass for document d: no
\* other route writes status pii_detected
DetectsAgain(d) == docs'[d] # docs[d] /\ docs'[d].status = "pii_detected"

\* C15: while the redaction status of a document is user_confirmed or
\* skipped, only a detection pass changes redaction_status, redacted_text or
\* redaction_map.
DecisionImmutable ==
    [][\A d \in DocIds :
          (docs[d].redaction_status \in GateOpen /\ ~DetectsAgain(d))
             => /\ docs'[d].redaction_status = docs[d].redaction_status
                /\ docs'[d].redacted_text = docs[d].redacted_text
                /\ docs'[d].redaction_map = docs[d].redaction_map]_vars

\* the findings a and b differ at most in their confirmed flags
SameFindings(a, b) ==
    /\ Len(a) = Len(b)
    /\ \A i \in 1..Len(a) :
          [a[i] EXCEPT !.confirmed = TRUE] = [b[i] EXCEPT !.confirmed = TRUE]

\* what the detector returns for the persisted text of document d
DetectorOutput(d) ==
    IF docs[d].extracted_text = None THEN <<>>
    ELSE LET c == CHOOSE c \in Corpus : c.text = docs[d].extracted_text[1]
         IN  detectPII(c.text, c.raw)

\* C16: the persisted findings of every document are the detector's output
\* for its persisted text, up to the confirmed flags.
FindingsFromDetector ==
    \A d \in DocIds : SameFindings(docs[d].pii_detections, DetectorOutput(d))

\* the step in which the confirm-redaction request of slot q writes its
\* decision
Decides(q) == creq[q].pc = "fetched" /\ creq'[q].pc = "idle"

\* C20: a redaction decision written to a document whose status is not
\* pii_detected changes neither its status nor its redaction fields.
DecisionOnlyWhenReviewed ==
    [][\A q \in 1..NumConfirm :
          (Decides(q) /\ docs[creq[q].doc].status # "pii_detected")
             => /\ docs'[creq[q].doc].status = docs[creq[q].doc].status
                /\ docs'[creq[q].doc].redaction_status =
                      docs[creq[q].doc].redaction_status
                /\ docs'[creq[q].doc].redacted_text =
                      docs[creq[q].doc].redacted_text
                /\ docs'[creq[q].doc].redaction_map =
                      docs[creq[q].doc].redaction_map
                /\ docs'[creq[q].doc].pii_detections =
                      docs[creq[q].doc].pii_detections]_vars

-----------------------------------------------------------------------------
(* Claims about applyRedactions on the findings of the detector *)

RECURSIVE FrontToBack(_, _, _)
\* the text from offset pos on, read front to back: the span of a confirmed
\* finding is replaced by its mask, everything else is copied
FrontToBack(text, detections, pos) ==
    IF detections = <<>> THEN SubSeq(text, pos + 1, Len(text))
    ELSE LET d == Head(detections) IN
         SubSeq(text, pos + 1, d.start)
             \o (IF d.confirmed THEN d.suggestedMask
                 ELSE SubSeq(text, d.start + 1, d.end))
             \o FrontToBack(text, Tail(detections), d.end)

ConfirmedMasks ==
    {findings[i].suggestedMask :
        i \in {j \in 1..Len(findings) : findings[j].confirmed}}

\* C17: the redacted text is the text with the spans of the confirmed
\* findings replaced by their masks front to back and everything else
\* copied, and the keys of the map are the masks of the confirmed findings,
\* each once.
RedactsConfirmedSpans ==
    phase \in {"redacted", "restored"} =>
        /\ redaction.redactedText = FrontToBack(inText, findings, 0)
        /\ {redaction.redactionMap[i].mask :
               i \in 1..Len(redaction.redactionMap)} = ConfirmedMasks
        /\ Len(redaction.redactionMap) = Cardinality(ConfirmedMasks)

\* three findings, of which the first and the last are confirmed and the one
\* between them is not, and a mask that is longer than what it replaces
RedactsConfirmedSpansWitness ==
    /\ phase = "redacted"
    /\ Len(findings) = 3
    /\ findings[1].confirmed
    /\ ~findings[2].confirmed
    /\ findings[3].confirmed
    /\ Len(findings[1].suggestedMask) > Len(findings[1].original)
    /\ findings[1].suggestedMask # findings[3].suggestedMask

\* C18: after applyRedactions on the findings of the detector, two confirmed
\* findings with the same mask have the same original, and the map holds for
\* the mask of every confirmed finding that finding's original.
SharedMaskSameOriginal ==
    phase \in {"redacted", "restored"} =>
        \A i, j \in 1..Len(findings) :
            (findings[i].confirmed /\ findings[j].confirmed /\
             findings[i].suggestedMask = findings[j].suggestedMask)
                => /\ findings[i].original = findings[j].original
                   /\ MapGet(redaction.redactionMap, findings[i].suggestedMask)
                         = findings[i].original

-----------------------------------------------------------------------------
(* The rate limiter, and the analyze route with it, for several documents of
   one user *)

\* checkRateLimit with a window that ends at resetAt instead of after it
checkRateLimitEarlyReset(store, key, maxRequests, windowMs, t) ==
    LET entry == store[key] IN
    IF entry = None \/ t >= entry[1].resetAt
    THEN [allowed |-> TRUE,
          store |-> [store EXCEPT ![key] =
                        Some([count |-> 1, resetAt |-> t + windowMs])]]
    ELSE IF entry[1].count >= maxRequests
         THEN [allowed |-> FALSE, store |-> store]
         ELSE [allowed |-> TRUE,
               store |-> [store EXCEPT ![key] =
                             Some([entry[1] EXCEPT !.count = @ + 1])]]

\* the limit is reached one call early
checkRateLimitOffByOne(store, key, maxRequests, windowMs, t) ==
    LET entry == store[key] IN
    IF entry = None \/ t > entry[1].resetAt
    THEN [allowed |-> TRUE,
          store |-> [store EXCEPT ![key] =
                        Some([count |-> 1, resetAt |-> t + windowMs])]]
    ELSE IF entry[1].count >= maxRequests - 1
         THEN [allowed |-> FALSE, store |-> store]
         ELSE [allowed |-> TRUE,
               store |-> [store EXCEPT ![key] =
                             Some([entry[1] EXCEPT !.count = @ + 1])]]

\* the entry of key is replaced or counted up, or the call is blocked; t is
\* Date.now()
checkRateLimit(store, key, maxRequests, windowMs, t) ==
    LET entry == store[key] IN
    IF entry = None \/ t > entry[1].resetAt
    THEN [allowed |-> TRUE,
          store |-> [store EXCEPT ![key] =
                        Some([count |-> 1, resetAt |-> t + windowMs])]]
    ELSE IF entry[1].count >= maxRequests
         THEN [allowed |-> FALSE, store |-> store]
         ELSE [allowed |-> TRUE,
               store |-> [store EXCEPT ![key] =
                             Some([entry[1] EXCEPT !.count = @ + 1])]]

LimitedDocs == 1..NumLimitedDocs

\* documents of one user, each a note
InitLimited ==
    /\ docs = [d \in LimitedDocs |-> UploadedDoc("note.txt")]
    /\ areq = [r \in {1} |-> IdleAnalyze]
    /\ creq = [q \in {1} |-> IdleConfirm]
    /\ response = NextResponse("none", 0, 0, "none")
    /\ rateLimits = [key \in RateKeys |-> None]
    /\ now = 0
    /\ counted = {}
    /\ phase = "off"
    /\ inText = <<>>
    /\ inRaw = <<>>
    /\ findings = <<>>
    /\ redaction = NoRedaction
    /\ restored = <<>>
    /\ inMap = <<>>

\* POST /api/documents/analyze from the rate limit on
AnalyzeRequest(r, d) ==
    LET limit == checkRateLimit(rateLimits, "analyze:user", MaxAnalyzeRequests,
                                WindowTicks, now)
    IN  /\ areq[r].pc = "idle"
        /\ rateLimits' = limit.store
        /\ now' = now
        /\ IF limit.allowed
           THEN /\ counted' = IF limit.store["analyze:user"][1].count = 1
                              THEN {d} ELSE counted \union {d}
                /\ AnalyzeChecks(r, d)
           ELSE /\ response' = NextResponse("analyze", r, d, "429")
                /\ UNCHANGED <<docs, areq, creq, counted>>
                /\ UNCHANGED shieldVars

\* time passes
Tick ==
    /\ now < MaxNow
    /\ now' = now + 1
    /\ UNCHANGED <<docs, areq, creq, response, rateLimits, counted>>
    /\ UNCHANGED shieldVars

NextLimited ==
    \/ \E d \in LimitedDocs, c \in Corpus : DetectPII(d, c)
    \/ \E d \in LimitedDocs : DetectPIIFailed(d)
    \/ \E d \in LimitedDocs, skip \in BOOLEAN :
          \E confirmed \in SUBSET (1..Len(docs[d].pii_detections)) :
              ConfirmFetch(1, d, confirmed, skip)
    \/ ConfirmWrite(1)
    \/ \E d \in LimitedDocs : AnalyzeRequest(1, d)
    \/ AnalyzeSetAnalyzing(1)
    \/ \E status \in {"500 unexpected", "500 analysis failed"} :
          AnalyzeFailed(1, status)
    \/ AnalyzeStore(1)
    \/ Tick

SpecLimited == InitLimited /\ [][NextLimited]_vars

\* the step belongs to a request for document d
OperatesOn(d) ==
    \/ response'.route = "detect-pii" /\ response'.doc = d
    \/ \E q \in DOMAIN creq :
          creq[q].pc = "fetched" /\ creq[q].doc = d /\ creq'[q].pc = "idle"
    \/ \E r \in DOMAIN areq :
          areq[r].pc # "idle" /\ areq[r].doc = d /\ areq'[r] # areq[r]

\* the step in which the analyze request of slot r is blocked by the rate
\* limiter
Blocks(r) ==
    /\ areq[r].pc = "idle"
    /\ response' # response
    /\ response'.route = "analyze"
    /\ response'.req = r
    /\ response'.status = "429"

\* C19: a step changes the row of a document only if it belongs to a request
\* for that document, and no step changes two rows; an analyze request for a
\* document is blocked only when every request counted against the limit was
\* a request for that document.
DocumentsIndependent ==
    [][/\ \A d \in DOMAIN docs : docs'[d] # docs[d] => OperatesOn(d)
       /\ \A d, e \in DOMAIN docs :
             (docs'[d] # docs[d] /\ docs'[e] # docs[e]) => d = e
       /\ \A r \in DOMAIN areq :
             Blocks(r) => counted \subseteq {response'.doc}]_vars

\* C19, amended: a step changes the row of a document only if it belongs
\* to a request for that document, and no step changes two rows; an analyze
\* request is answered as its own row decides, unless the rate limiter
\* blocks it, which it does only when the open window of the user already
\* counts the maximum of requests; a confirm-redaction request is rejected
\* only for a row without text.
DocumentsIndependentButLimit ==
    [][/\ \A d \in DOMAIN docs : docs'[d] # docs[d] => OperatesOn(d)
       /\ \A d, e \in DOMAIN docs :
             (docs'[d] # docs[d] /\ docs'[e] # docs[e]) => d = e
       /\ \A r \in DOMAIN areq :
             /\ Accepts(r) => AnalyzeVerdict(docs[areq'[r].doc]) = "pass"
             /\ (Rejects(r) /\ ~Blocks(r)) =>
                   response'.status = AnalyzeVerdict(docs[response'.doc])
             /\ Blocks(r) =>
                   /\ rateLimits["analyze:user"] # None
                   /\ rateLimits["analyze:user"][1].count >= MaxAnalyzeRequests
                   /\ now <= rateLimits["analyze:user"][1].resetAt
                   /\ rateLimits' = rateLimits
                   /\ docs' = docs
       /\ (response' # response /\ response'.route = "confirm-redaction"
              /\ response'.status = "400 no text")
             => Falsy(docs[response'.doc].extracted_text)]_vars

\* an analyze request for a document was blocked although the open window
\* counts only requests for another document
DocumentsIndependentWitness ==
    /\ response.route = "analyze"
    /\ response.status = "429"
    /\ counted # {}
    /\ response.doc \notin counted
    /\ AnalyzeVerdict(docs[response.doc]) = "pass"

(***************************************************************************)
(* Failure of the transcription during detect-pii                          *)
(***************************************************************************)

\* the step on which detect-pii answers 500 for document d
DetectFails(d) ==
    /\ response' = NextResponse("detect-pii", 0, d, "500")
    /\ response' # response

\* C21: when the transcription fails during detect-pii, extracted_text,
\* pii_detections and redaction_status are not written and the document
\* moves to error
FailedDetectErrors ==
    [][\A d \in DOMAIN docs :
          DetectFails(d) =>
              /\ docs'[d].extracted_text = docs[d].extracted_text
              /\ docs'[d].pii_detections = docs[d].pii_detections
              /\ docs'[d].redaction_status = docs[d].redaction_status
              /\ docs'[d].status = "error"]_vars

-----------------------------------------------------------------------------
(* Harness of the detector for account numbers: a text of two account
   numbers separated by a space.  The partial-reveal mask shows the last
   five digits of an account number, so a number here has more than five. *)

AccountLen == 6

\* the digit strings of AccountLen digits made of a first digit and one
\* repeated digit after it
AccountNumbers ==
    {<<h>> \o [i \in 1..(AccountLen - 1) |-> t] :
        h \in {"1", "2"}, t \in {"1", "2"}}

AccountTexts == {a \o <<" ">> \o b : a, b \in AccountNumbers}

InitAccounts ==
    /\ phase = "scan"
    /\ inText \in AccountTexts
    /\ inRaw = <<>>
    /\ findings = <<>>
    /\ redaction = NoRedaction
    /\ restored = <<>>
    /\ inMap = <<>>
    /\ NoRequests

NextAccounts ==
    \/ \E type \in HarnessTypes :
          \E start \in 0..(2 * AccountLen + 1), end \in 0..(2 * AccountLen + 1) :
              RegexExec(type, start, end)
    \/ RunDetect

SpecAccounts == InitAccounts /\ [][NextAccounts]_vars

\* C22: within one detectPII call, two findings whose normalized values
\* differ never receive the same mask
DistinctValuesDistinctMasks ==
    phase = "detected" =>
        \A i, j \in 1..Len(findings) :
            Normalize(findings[i].original) # Normalize(findings[j].original)
                => findings[i].suggestedMask # findings[j].suggestedMask

-----------------------------------------------------------------------------
(* Claims about the masks of the returned findings (SpecDetect) *)

\* the masks that the mask generation can give a finding of category type
\* with matched text original
OwnMasks(type, original) ==
    {MintMask(type, Normalize(original), Letter(n)) : n \in 0..MaxMatches}

\* C23: every returned finding carries a mask built from its own category's
\* label and masking strategy, also when the same normalized value was
\* matched earlier by another category
OwnCategoryMask ==
    phase = "detected" =>
        \A i \in 1..Len(findings) :
            findings[i].suggestedMask
                \in OwnMasks(findings[i].type, findings[i].original)

\* the categories whose mask is a lettered token
FullRemovalTypes ==
    {t \in {PIITypes[i] : i \in 1..Len(PIITypes)} :
        PII_PATTERNS[t].maskType = "full"}

\* the detections of category type in ds that carry a mask of that category
OwnOf(type, ds) ==
    SelectSeq(ds, LAMBDA d : /\ d.type = type
                             /\ d.suggestedMask \in OwnMasks(type, d.original))

RECURSIVE FirstValues(_)
\* the distinct normalized values of ds in order of first occurrence
FirstValues(ds) ==
    IF ds = <<>> THEN <<>>
    ELSE LET before == FirstValues(SubSeq(ds, 1, Len(ds) - 1))
             value == Normalize(ds[Len(ds)].original)
         IN  IF \E i \in 1..Len(before) : before[i] = value
             THEN before ELSE Append(before, value)

IndexOf(seq, v) == CHOOSE i \in 1..Len(seq) : seq[i] = v

\* in ds the first distinct value of the category is lettered A, the second
\* B, and so on
LetteredInOrder(type, ds) ==
    LET own == OwnOf(type, ds)
        values == FirstValues(own)
    IN  \A i \in 1..Len(own) :
            own[i].suggestedMask =
                MintMask(type, Normalize(own[i].original),
                         Letter(IndexOf(values, Normalize(own[i].original)) - 1))

\* C24 as claimed: for each full-removal category the first distinct value
\* is lettered A, the second B, and so on, so the letters carried by the
\* returned findings of a category form a gap-free sequence A, B, C, ... in
\* order of first occurrence
GapFreeLetters ==
    phase = "detected" =>
        \A type \in FullRemovalTypes : LetteredInOrder(type, findings)

\* C24 amended: the letters are given in order of first occurrence among all
\* raw matches of the category, returned or not; the returned findings are
\* among these matches and carry their letters
LettersByFirstMatch ==
    phase = "detected" =>
        /\ \A type \in FullRemovalTypes :
              LetteredInOrder(type, DetectTrace.detections)
        /\ \A i \in 1..Len(findings) :
              \E k \in 1..Len(DetectTrace.detections) :
                  DetectTrace.detections[k] = findings[i]

\* a returned finding lettered B of a category of which no returned finding
\* is lettered A: the match lettered A was discarded in an overlap
LettersWitness ==
    /\ phase = "detected"
    /\ \E type \in FullRemovalTypes :
          /\ \E i \in 1..Len(findings) :
                /\ findings[i].type = type
                /\ findings[i].suggestedMask =
                       MintMask(type, Normalize(findings[i].original), Letter(1))
          /\ \A i \in 1..Len(findings) :
                findings[i].suggestedMask #
                    MintMask(type, Normalize(findings[i].original), Letter(0))

-----------------------------------------------------------------------------
(* Progress of the analysis *)

\* the analysis call of request r returns or fails, and the handler runs to
\* its response
AnalysisReturns(r) ==
    \/ AnalyzeStore(r)
    \/ \E status \in {"500 unexpected", "500 analysis failed"} :
          AnalyzeFailed(r, status)

\* the documents are uploads of the plain text file
InitProgress == Init /\ \A d \in DocIds : docs[d].file_path = "note.txt"

\* every analysis call that was made returns or fails
SpecFair ==
    /\ InitProgress
    /\ [][Next]_vars
    /\ \A r \in 1..NumAnalyze : WF_vars(AnalysisReturns(r))

-----------------------------------------------------------------------------
(* The context of the chat model: buildFinancialContext *)

\* the number of document rows the query returns, and the number of
\* characters of a summary that the context quotes
RecentLimit == 3
SummaryLimit == 150

\* the part of the context built from the accounts, bills_upcoming and
\* transactions tables, which the Privacy Shield does not write: the
\* overview when an account is connected, the note that none is otherwise
Overview == <<"o", "v", "e", "r", "v", "i", "e", "w", LineBreak>>
NotConnected == <<"n", "o", " ", "a", "c", "c", "o", "u", "n", "t", "s">>

RECURSIVE RecentDocs(_, _, _)
\* the rows with status analyzed, newest upload first (the rows are numbered
\* in the order of their upload), at most limit of them, of the rows 1..d
RecentDocs(rows, d, limit) ==
    IF d = 0 \/ limit = 0 THEN <<>>
    ELSE IF rows[d].status = "analyzed"
         THEN <<rows[d]>> \o RecentDocs(rows, d - 1, limit - 1)
         ELSE RecentDocs(rows, d - 1, limit)

RECURSIVE SummaryLines(_)
\* one line per recent document: its summary cut to SummaryLimit characters
\* (the document_type column, which starts the line, is not modelled)
SummaryLines(recentDocs) ==
    IF recentDocs = <<>> THEN <<>>
    ELSE LET d == Head(recentDocs)
             summary == IF d.ai_summary # None
                        THEN Slice(d.ai_summary[1], 0, SummaryLimit)
                        ELSE <<"N", "o", " ", "s", "u", "m", "m", "a", "r", "y">>
         IN  <<"-", " ">> \o summary \o <<LineBreak>>
                 \o SummaryLines(Tail(recentDocs))

\* the context string for a user with or without a connected bank account
\* and the document rows
buildFinancialContext(connected, rows) ==
    LET recentDocs == RecentDocs(rows, Len(rows), RecentLimit) IN
    IF ~connected THEN NotConnected
    ELSE IF Len(recentDocs) > 0
         THEN Overview \o <<LineBreak, "d", "o", "c", "s", ":", LineBreak>>
                  \o SummaryLines(recentDocs)
         ELSE Overview

Contains(s, sub) ==
    \E i \in 0..(Len(s) - Len(sub)) : SubSeq(s, i + 1, i + Len(sub)) = sub

\* C26: the context that buildFinancialContext builds for the chat model
\* never contains an original value that the Privacy Shield masked before
\* the analysis of a document
ContextHidesOriginals ==
    \A connected \in BOOLEAN, d \in DOMAIN docs :
        \A i \in 1..Len(docs[d].redaction_map) :
            ~Contains(buildFinancialContext(connected, docs),
                      docs[d].redaction_map[i].original)

-----------------------------------------------------------------------------
(* Claims about the persisted row under concurrent requests (Spec) *)

\* C27: whenever the processing status of a document is analyzing or
\* analyzed, its redaction_status is user_confirmed or skipped
AnalyzedOnlyDecided ==
    \A d \in DOMAIN docs :
        docs[d].status \in {"analyzing", "analyzed"}
            => docs[d].redaction_status \in {"user_confirmed", "skipped"}

\* C28: whenever redaction_status is user_confirmed, the persisted
\* redacted_text and redaction_map are the result of applyRedactions on the
\* persisted extracted_text and the persisted pii_detections
RedactionOfPersistedText ==
    \A d \in DOMAIN docs :
        docs[d].redaction_status = "user_confirmed"
            => /\ docs[d].extracted_text # None
               /\ LET result == applyRedactions(docs[d].extracted_text[1],
                                                docs[d].pii_detections)
                  IN  /\ docs[d].redacted_text = Some(result.redactedText)
                      /\ docs[d].redaction_map = result.redactionMap

-----------------------------------------------------------------------------
(* Claim about the discarded matches (SpecDetect) *)

\* C29: every raw match that detectPII discards during overlap resolution
\* overlaps a finding that is returned
DiscardedOverlapsReturned ==
    phase = "detected" =>
        \A i \in 1..Len(SortedDetections) :
            ~Returned(SortedDetections[i]) =>
                \E k \in 1..Len(findings) :
                    Overlap(SortedDetections[i], findings[k])

-----------------------------------------------------------------------------
(* Harness of the rate limiter: calls of checkRateLimit for several keys,
   each key with its own maxRequests, while time passes. *)

RateMax == 2
RateWindow == 1
RateMaxNow == 3

\* the buckets of two routes of one user
LimiterKeys == RateKeys \union {"chat:user"}

\* no call was made for a key with maxRequests m: no window was opened
NoCalls(m) == [maxRequests |-> m, opened |-> -1, allowed |-> 0]

InitRate ==
    /\ rateLimits = [key \in LimiterKeys |-> None]
    /\ now = 0
    /\ counted \in [LimiterKeys -> {NoCalls(m) : m \in 1..RateMax}]
    /\ response = [key |-> "none", allowed |-> FALSE]
    /\ docs = <<>> /\ areq = <<>> /\ creq = <<>>
    /\ phase = "off"
    /\ inText = <<>>
    /\ inRaw = <<>>
    /\ findings = <<>>
    /\ redaction = NoRedaction
    /\ restored = <<>>
    /\ inMap = <<>>

\* the call is made after the resetAt of the window that the last opening
\* call for key opened, or no call was made for key
OpensWindow(key) ==
    \/ counted[key].opened = -1
    \/ now > counted[key].opened + RateWindow

\* a route calls checkRateLimit(key, maxRequests, windowMs); counted notes
\* when the window of key was opened and how many calls were allowed since
CallLimiter(key) ==
    LET limit == checkRateLimit(rateLimits, key, counted[key].maxRequests,
                                RateWindow, now)
        granted == IF limit.allowed THEN 1 ELSE 0
    IN  /\ rateLimits' = limit.store
        /\ response' = [key |-> key, allowed |-> limit.allowed]
        /\ counted' = [counted EXCEPT ![key] =
                          IF OpensWindow(key)
                          THEN [@ EXCEPT !.opened = now, !.allowed = granted]
                          ELSE [@ EXCEPT !.allowed = @ + granted]]
        /\ UNCHANGED <<now, docs, areq, creq>>
        /\ UNCHANGED shieldVars

\* time passes
Elapse ==
    /\ now < RateMaxNow
    /\ now' = now + 1
    /\ UNCHANGED <<docs, areq, creq, response, rateLimits, counted>>
    /\ UNCHANGED shieldVars

NextRate ==
    \/ \E key \in LimiterKeys : CallLimiter(key)
    \/ Elapse

SpecRate == InitRate /\ [][NextRate]_vars

\* the step is a call of checkRateLimit for key
CallsLimiter(key) == now' = now /\ response'.key = key

\* C30: for any key and maxRequests >= 1, checkRateLimit returns true for at
\* most maxRequests calls between the call that opens a window and that
\* window's resetAt; the first call after resetAt is allowed and restarts
\* the count at 1; a rejected call changes no counter, and calls for one key
\* never change the count of another key
RateLimitHolds ==
    [][\A key \in LimiterKeys :
          CallsLimiter(key) =>
              /\ counted'[key].allowed <= counted[key].maxRequests
              /\ OpensWindow(key) =>
                    /\ response'.allowed
                    /\ rateLimits'[key] # None
                    /\ rateLimits'[key][1].count = 1
              /\ ~response'.allowed => rateLimits' = rateLimits
              /\ \A other \in LimiterKeys \ {key} :
                    rateLimits'[other] = rateLimits[other]]_vars

\* a call after resetAt has opened a new window for a key and restarted its
\* count at 1, while the other key stands at its own limit
RateLimitWitness ==
    \E key \in LimiterKeys, other \in LimiterKeys :
        /\ key # other
        /\ response = [key |-> key, allowed |-> TRUE]
        /\ counted[key].opened > RateWindow
        /\ counted[key].allowed = 1
        /\ rateLimits[key] # None /\ rateLimits[key][1].count = 1
        /\ rateLimits[other] # None
        /\ rateLimits[other][1].count = counted[other].maxRequests

=============================================================================
